---- MODULE Spec2Model ----
(***************************************************************************)
(* A model of the two acquisition scripts of the NewsScraper repository:   *)
(*                                                                         *)
(*   tdnet_download.py  the sequential TDnet PDF downloader                *)
(*                      (TdnetDownloader.run and what it calls);           *)
(*   news_download.py   the concurrent RSS article downloader              *)
(*                      (main_flow gathering one process_single_feed       *)
(*                      coroutine per feed).                               *)
(*                                                                         *)
(* The two scripts share no state.  SpecTdnet runs the downloader and      *)
(* leaves the news variables alone, SpecNews runs the feed tasks and       *)
(* leaves the downloader's variables alone.                                *)
(***************************************************************************)
EXTENDS Integers, Sequences, FiniteSets, TLC

\* ---------------------------------------------------------------- bounds
\* The API listing holds at most MaxItems items.
MaxItems == 2
\* config.max_retries ranges over 0..MaxMaxRetries.
MaxMaxRetries == 2
\* The downloader is started at most MaxRuns times on the same file system.
MaxRuns == 2

\* ------------------------------------------------------ program constants
\* len("https://webapi.yanoshin.jp/rd.php?"), counted in URL tokens: the
\* redirect prefix is one token of a document_url.
PrefixLen == 1

\* ===================================================================
\*                     tdnet_download.py
\* ===================================================================

VARIABLES
    max_retries,            \* config.max_retries
    api_items,              \* what the listing endpoint answers (fetch_data)
    data,                   \* extracted_data of the current run
    extracted_data_file,    \* config.extracted_data_file: <<>> or <<list>>
    failed_downloads_file,  \* config.failed_downloads_file: <<>> or <<list>>
    pdf_files,              \* pdf_directory: file name -> content
    td_phase,               \* where run() is
    td_pc,                  \* where process_downloads/download_single_pdf is
    td_idx,                 \* position of "for item in data"
    td_attempt,             \* iterations of "for _ in range(max_retries)" begun
    td_content,             \* pdf_content of the current attempt
    failed_downloads,       \* the list process_downloads is building
    main_failed,            \* run()'s failed_downloads (line 150)
    td_runs,                \* how many times run() was started
    fetch_calls,            \* per url: requests.get calls of download_pdf, by pass
    td_io_fault,            \* a write or a delete has failed at some point
    failure_file_before     \* the failure file as it was when run() was called

tdVars == <<max_retries, api_items, data, extracted_data_file,
            failed_downloads_file, pdf_files, td_phase, td_pc, td_idx,
            td_attempt, td_content, failed_downloads, main_failed, td_runs,
            fetch_calls, td_io_fault, failure_file_before>>

\* ---- news_download.py: the state of main_flow and its feed tasks
VARIABLES
    feed_entries,    \* per feed task: feed.entries, what its feed URL serves
    news_pc,         \* per feed task: where process_single_feed is
    news_idx,        \* per feed task: position of "for index, entry in ..."
    news_text,       \* per feed task: text of the current entry
    file_exists,     \* per feed task: save_index_to_csv's local file_exists
    csv_buf,         \* per feed task: lines written to the open csv_file
    article_files,   \* raw_data/news/<source>/<YYYY-MM>/<id>.json
    index_exists,    \* os.path.isfile(article_index.csv)
    index_lines,     \* the lines of article_index.csv
    news_runs,       \* how many times main_flow was started
    item_error       \* per feed task: an entry's fetch or write has failed

newsVars == <<feed_entries, news_pc, news_idx, news_text, file_exists,
              csv_buf, article_files, index_exists, index_lines, news_runs,
              item_error>>

vars == <<tdVars, newsVars>>

\* Company codes are digit strings; pubdate is "<date> <time>".
CompanyCodes == {<<1, 0>>, <<1, 5>>}
Pubdates == {<<"d1", "t1">>, <<"d2", "t1">>}
RedirectPrefix == "rd"

\* response.content of a PDF request: a PDF with pages, a PDF that parses
\* to zero pages, bytes that are no PDF.
PdfPayloads == {"pdf", "zero_pages", "garbage"}
NoFile == "absent"
Truncated == "truncated"
NoContent == "none"

\* One element of data["items"] (the "Tdnet" object), with url token u.
ApiItem(u, code, pd) ==
    [pubdate |-> pd, company_code |-> code,
     document_url |-> <<RedirectPrefix, u>>]

\* The listings the endpoint may answer: 1..MaxItems items, distinct urls.
ApiListings ==
    UNION {
        { [i \in 1..n |-> ApiItem(i, c[i], p[i])] :
            c \in [1..n -> CompanyCodes], p \in [1..n -> Pubdates] }
        : n \in 1..MaxItems }

\* extract_info: keeps three keys and slices the prefix off document_url.
extract_info(d) ==
    [i \in 1..Len(d) |->
        [pubdate |-> d[i].pubdate,
         company_code |-> d[i].company_code,
         document_url |-> SubSeq(d[i].document_url, PrefixLen + 1,
                                 Len(d[i].document_url))]]

\* save_data: json.dump(data) replaces what the file held.
save_data_nothing(d) == <<>>
save_data(d) == <<d>>

\* item["pubdate"].split(" ")[0]
DateOf(item) == item.pubdate[1]

\* os.path.join(pdf_directory, f"{date}_{company_code}.pdf")
file_path(item) == <<DateOf(item), item.company_code>>

PdfPaths == {<<pd[1], c>> : pd \in Pubdates, c \in CompanyCodes}
Urls == {<<u>> : u \in 1..MaxItems}

\* item["company_code"][-1] == "0"
Eligible_any_code(item) == TRUE
Eligible(item) == item.company_code[Len(item.company_code)] = 0

\* validate_pdf: the file opens as a PDF and has at least one page.
validate_pdf(content) == content = "pdf"

\* The list the current process_downloads call iterates.
CurList_always_data == data
CurList == IF td_phase = "replay" THEN main_failed ELSE data

CurItem == CurList[td_idx]

InPass == td_phase \in {"main", "replay"}

\* range(max_retries) is exhausted.
RetriesExhausted_off_by_one == td_attempt > max_retries
RetriesExhausted == td_attempt >= max_retries

NoCalls == [u \in Urls |-> [main |-> 0, replay |-> 0]]

\* One more requests.get for url u in the current pass.
CountFetch(u) ==
    [fetch_calls EXCEPT ![u] =
        IF td_phase = "main"
        THEN [@ EXCEPT !.main = @ + 1]
        ELSE [@ EXCEPT !.replay = @ + 1]]

\* run(), lines 144-150: the listing is fetched, extracted and saved, and
\* the main pass begins.
TdRun ==
    /\ td_phase \in {"idle", "done", "crashed"}
    /\ td_runs < MaxRuns
    /\ td_runs' = td_runs + 1
    /\ data' = extract_info(api_items)
    /\ extracted_data_file' = save_data(extract_info(api_items))
    /\ td_phase' = "main"
    /\ td_pc' = "loop"
    /\ td_idx' = 1
    /\ td_attempt' = 0
    /\ td_content' = NoContent
    /\ failed_downloads' = <<>>
    /\ main_failed' = <<>>
    /\ fetch_calls' = NoCalls
    /\ failure_file_before' = failed_downloads_file
    /\ UNCHANGED <<newsVars, max_retries, api_items, failed_downloads_file, pdf_files,
                   td_io_fault>>

\* run(), line 147: fetch_data raises (network, HTTP status, JSON) and the
\* exception leaves run().
TdRunFetchDataFails ==
    /\ td_phase \in {"idle", "done", "crashed"}
    /\ td_runs < MaxRuns
    /\ td_runs' = td_runs + 1
    /\ td_phase' = "crashed"
    /\ td_pc' = "loop"
    /\ td_idx' = 1
    /\ td_attempt' = 0
    /\ td_content' = NoContent
    /\ failed_downloads' = <<>>
    /\ main_failed' = <<>>
    /\ fetch_calls' = NoCalls
    /\ failure_file_before' = failed_downloads_file
    /\ UNCHANGED <<newsVars, max_retries, api_items, data, extracted_data_file,
                   failed_downloads_file, pdf_files, td_io_fault>>

\* process_downloads, line 102: the code does not end in "0".
ProcessSkip ==
    /\ InPass /\ td_pc = "loop"
    /\ td_idx <= Len(CurList)
    /\ ~Eligible(CurItem)
    /\ td_idx' = td_idx + 1
    /\ UNCHANGED <<newsVars, failure_file_before, max_retries, api_items, data, extracted_data_file,
                   failed_downloads_file, pdf_files, td_phase, td_pc,
                   td_attempt, td_content, failed_downloads, main_failed,
                   td_runs, fetch_calls, td_io_fault>>

\* process_downloads, lines 102-103: download_single_pdf is entered.
ProcessEnter ==
    /\ InPass /\ td_pc = "loop"
    /\ td_idx <= Len(CurList)
    /\ Eligible(CurItem)
    /\ td_pc' = "attempt"
    /\ td_attempt' = 0
    /\ UNCHANGED <<newsVars, failure_file_before, max_retries, api_items, data, extracted_data_file,
                   failed_downloads_file, pdf_files, td_phase, td_idx,
                   td_content, failed_downloads, main_failed, td_runs,
                   fetch_calls, td_io_fault>>

\* download_single_pdf, line 113: download_pdf raises (requests.get or
\* raise_for_status); line 126 catches it and the loop goes on.
DownloadFails ==
    /\ InPass /\ td_pc = "attempt"
    /\ ~RetriesExhausted
    /\ td_attempt' = td_attempt + 1
    /\ fetch_calls' = CountFetch(CurItem.document_url)
    /\ UNCHANGED <<newsVars, failure_file_before, max_retries, api_items, data, extracted_data_file,
                   failed_downloads_file, pdf_files, td_phase, td_pc, td_idx,
                   td_content, failed_downloads, main_failed, td_runs,
                   td_io_fault>>

\* download_single_pdf, line 113: download_pdf returns response.content.
DownloadOk ==
    /\ InPass /\ td_pc = "attempt"
    /\ ~RetriesExhausted
    /\ \E c \in PdfPayloads : td_content' = c
    /\ td_attempt' = td_attempt + 1
    /\ fetch_calls' = CountFetch(CurItem.document_url)
    /\ td_pc' = "save"
    /\ UNCHANGED <<newsVars, failure_file_before, max_retries, api_items, data, extracted_data_file,
                   failed_downloads_file, pdf_files, td_phase, td_idx,
                   failed_downloads, main_failed, td_runs, td_io_fault>>

\* save_pdf: open(file_path, "wb") and write.
SavePdf ==
    /\ InPass /\ td_pc = "save"
    /\ pdf_files' = [pdf_files EXCEPT ![file_path(CurItem)] = td_content]
    /\ td_pc' = "validate"
    /\ UNCHANGED <<newsVars, failure_file_before, max_retries, api_items, data, extracted_data_file,
                   failed_downloads_file, td_phase, td_idx, td_attempt,
                   td_content, failed_downloads, main_failed, td_runs,
                   fetch_calls, td_io_fault>>

\* save_pdf: makedirs or open raises; nothing is written, line 126 catches.
SavePdfOpenFails ==
    /\ InPass /\ td_pc = "save"
    /\ td_pc' = "attempt"
    /\ td_content' = NoContent
    /\ td_io_fault' = TRUE
    /\ UNCHANGED <<newsVars, failure_file_before, max_retries, api_items, data, extracted_data_file,
                   failed_downloads_file, pdf_files, td_phase, td_idx,
                   td_attempt, failed_downloads, main_failed, td_runs,
                   fetch_calls>>

\* save_pdf: open(.., "wb") has truncated the file and write raises; the
\* truncated file stays, line 126 catches.
SavePdfWriteFails ==
    /\ InPass /\ td_pc = "save"
    /\ pdf_files' = [pdf_files EXCEPT ![file_path(CurItem)] = Truncated]
    /\ td_pc' = "attempt"
    /\ td_content' = NoContent
    /\ td_io_fault' = TRUE
    /\ UNCHANGED <<newsVars, failure_file_before, max_retries, api_items, data, extracted_data_file,
                   failed_downloads_file, td_phase, td_idx, td_attempt,
                   failed_downloads, main_failed, td_runs, fetch_calls>>

\* download_single_pdf, lines 120-122: the written file validates; True.
ValidateOk ==
    /\ InPass /\ td_pc = "validate"
    /\ validate_pdf(pdf_files[file_path(CurItem)])
    /\ td_pc' = "loop"
    /\ td_idx' = td_idx + 1
    /\ td_attempt' = 0
    /\ td_content' = NoContent
    /\ UNCHANGED <<newsVars, failure_file_before, max_retries, api_items, data, extracted_data_file,
                   failed_downloads_file, pdf_files, td_phase,
                   failed_downloads, main_failed, td_runs, fetch_calls,
                   td_io_fault>>

\* download_single_pdf, lines 123-125: the file does not validate and is
\* removed.
ValidateBadRemove ==
    /\ InPass /\ td_pc = "validate"
    /\ ~validate_pdf(pdf_files[file_path(CurItem)])
    /\ pdf_files' = [pdf_files EXCEPT ![file_path(CurItem)] = NoFile]
    /\ td_pc' = "attempt"
    /\ td_content' = NoContent
    /\ UNCHANGED <<newsVars, failure_file_before, max_retries, api_items, data, extracted_data_file,
                   failed_downloads_file, td_phase, td_idx, td_attempt,
                   failed_downloads, main_failed, td_runs, fetch_calls,
                   td_io_fault>>

\* download_single_pdf, line 124: os.remove raises; the file stays, line
\* 126 catches.
ValidateBadRemoveFails_escapes ==
    /\ InPass /\ td_pc = "validate"
    /\ ~validate_pdf(pdf_files[file_path(CurItem)])
    /\ td_phase' = "crashed"
    /\ td_pc' = "loop"
    /\ td_content' = NoContent
    /\ td_io_fault' = TRUE
    /\ UNCHANGED <<newsVars, failure_file_before, max_retries, api_items, data, extracted_data_file,
                   failed_downloads_file, pdf_files, td_idx,
                   td_attempt, failed_downloads, main_failed, td_runs,
                   fetch_calls>>
ValidateBadRemoveFails ==
    /\ InPass /\ td_pc = "validate"
    /\ ~validate_pdf(pdf_files[file_path(CurItem)])
    /\ td_pc' = "attempt"
    /\ td_content' = NoContent
    /\ td_io_fault' = TRUE
    /\ UNCHANGED <<newsVars, failure_file_before, max_retries, api_items, data, extracted_data_file,
                   failed_downloads_file, pdf_files, td_phase, td_idx,
                   td_attempt, failed_downloads, main_failed, td_runs,
                   fetch_calls>>

\* download_single_pdf, line 128, and process_downloads, line 106: the loop
\* is exhausted, False is returned and the item joins failed_downloads.
ReturnFalse ==
    /\ InPass /\ td_pc = "attempt"
    /\ RetriesExhausted
    /\ failed_downloads' = Append(failed_downloads, CurItem)
    /\ td_pc' = "loop"
    /\ td_idx' = td_idx + 1
    /\ td_attempt' = 0
    /\ UNCHANGED <<newsVars, failure_file_before, max_retries, api_items, data, extracted_data_file,
                   failed_downloads_file, pdf_files, td_phase, td_content,
                   main_failed, td_runs, fetch_calls, td_io_fault>>

\* run(), lines 150-151, and retry_failed_downloads, lines 132-134: the main
\* pass returns an empty list; nothing is saved, nothing is replayed.
EndMainPassClean_saves ==
    /\ td_phase = "main" /\ td_pc = "loop"
    /\ td_idx > Len(data)
    /\ failed_downloads = <<>>
    /\ failed_downloads_file' = save_data(failed_downloads)
    /\ td_phase' = "done"
    /\ UNCHANGED <<newsVars, failure_file_before, max_retries, api_items,
                   data, extracted_data_file, pdf_files, td_pc, td_idx,
                   td_attempt, td_content, failed_downloads, main_failed,
                   td_runs, fetch_calls, td_io_fault>>
EndMainPassClean ==
    /\ td_phase = "main" /\ td_pc = "loop"
    /\ td_idx > Len(data)
    /\ failed_downloads = <<>>
    /\ td_phase' = "done"
    /\ UNCHANGED <<newsVars, failure_file_before, max_retries, api_items, data, extracted_data_file,
                   failed_downloads_file, pdf_files, td_pc, td_idx,
                   td_attempt, td_content, failed_downloads, main_failed,
                   td_runs, fetch_calls, td_io_fault>>

\* retry_failed_downloads, lines 136-137: the list is saved to the failure
\* file and process_downloads is called on it.
EndMainPassRetry ==
    /\ td_phase = "main" /\ td_pc = "loop"
    /\ td_idx > Len(data)
    /\ failed_downloads # <<>>
    /\ main_failed' = failed_downloads
    /\ failed_downloads_file' = save_data(failed_downloads)
    /\ failed_downloads' = <<>>
    /\ td_phase' = "replay"
    /\ td_idx' = 1
    /\ UNCHANGED <<newsVars, failure_file_before, max_retries, api_items, data, extracted_data_file,
                   pdf_files, td_pc, td_attempt, td_content, td_runs,
                   fetch_calls, td_io_fault>>

\* retry_failed_downloads, line 137: the replay's process_downloads
\* returns; its result is dropped and run() returns.
EndReplayPass ==
    /\ td_phase = "replay" /\ td_pc = "loop"
    /\ td_idx > Len(CurList)
    /\ td_phase' = "done"
    /\ UNCHANGED <<newsVars, failure_file_before, max_retries, api_items, data, extracted_data_file,
                   failed_downloads_file, pdf_files, td_pc, td_idx,
                   td_attempt, td_content, failed_downloads, main_failed,
                   td_runs, fetch_calls, td_io_fault>>

TdNext ==
    \/ TdRun
    \/ TdRunFetchDataFails
    \/ ProcessSkip
    \/ ProcessEnter
    \/ DownloadFails
    \/ DownloadOk
    \/ SavePdf
    \/ SavePdfOpenFails
    \/ SavePdfWriteFails
    \/ ValidateOk
    \/ ValidateBadRemove
    \/ ValidateBadRemoveFails
    \/ ReturnFalse
    \/ EndMainPassClean
    \/ EndMainPassRetry
    \/ EndReplayPass

\* ===================================================================
\*                     news_download.py
\* ===================================================================

\* RSS.json lists NumFeeds feeds; a feed serves at most MaxEntries entries.
NumFeeds == 2
MaxEntries == 2
\* All feeds together serve at most MaxTotalEntries entries.
MaxTotalEntries == 3
\* main_flow is started at most NewsMaxRuns times on the same file system.
NewsMaxRuns == 2

Tasks == 1..NumFeeds
Links == {"u1", "u2"}

\* rss_item["name"] of feed task t.
source_name(t) == <<"feed", t>>

\* A feed entry: entry.title, entry.link, entry.get("published", ...).
Entry(l) == [title |-> <<"title", l>>, link |-> l, published |-> "date"]

\* An entry the feed serves without a title and without a link: entry.title
\* and entry.link raise AttributeError.
MalformedEntry == [title |-> <<>>, link |-> "", published |-> "date"]

WellFormed(e) == e.title # <<>> /\ e.link # ""

EntryLists ==
    UNION { [1..n -> {Entry(l) : l \in Links} \cup {MalformedEntry}] :
               n \in 0..MaxEntries }

\* article.text of a fetched page: no text at all, or some text.
Texts == {"", "body"}
NoText == "none"

\* hashlib.md5(url.encode()).hexdigest(): one digest per url.
generate_unique_id(url) == <<"md5", url>>

\* datetime.now(jst).strftime("%Y-%m")
year_month == "YYYY-MM"

\* Path(base_dir) / source_name / year_month / f"{article_id}.json"
article_path(t, link) == <<source_name(t), year_month, generate_unique_id(link)>>

ArticlePaths == {article_path(t, l) : t \in Tasks, l \in Links}

\* A file: it exists or not, and what it holds.
Absent == [exists |-> FALSE, content |-> <<>>]
EmptyFile == [exists |-> TRUE, content |-> <<>>]

CurEntry(t) == feed_entries[t][news_idx[t]]

\* article_data, lines 110-117, as json.dumps writes it.
article_data(t) ==
    [id |-> generate_unique_id(CurEntry(t).link),
     title |-> CurEntry(t).title,
     date |-> CurEntry(t).published,
     link |-> CurEntry(t).link,
     text |-> news_text[t],
     source |-> source_name(t)]

\* The two lines save_index_to_csv writes.
HeaderLine == [kind |-> "header"]
RowLine(t) ==
    [kind |-> "row",
     id |-> generate_unique_id(CurEntry(t).link),
     title |-> CurEntry(t).title,
     date |-> CurEntry(t).published,
     source |-> source_name(t),
     file_path |-> article_path(t, CurEntry(t).link)]

\* A file opened in mode "a": what is flushed goes after what is there.
AppendLines_mode_w(lines, buf) == buf
AppendLines(lines, buf) == lines \o buf

\* The head of the entry loop, lines 83-87, for entry i: the loop is over
\* and the task returns; or entry.title / entry.link raise, outside every
\* try, and the task ends with the exception; or the entry is fetched.
EntryPc(t, i) ==
    IF i > Len(feed_entries[t]) THEN "done"
    ELSE IF WellFormed(feed_entries[t][i]) THEN "fetch"
    ELSE "raised"

\* The loop of process_single_feed moves to the next entry, or returns.
NextEntryPc(t) == EntryPc(t, news_idx[t] + 1)

\* How a task of the gather can have ended.
Ended == {"done", "raised", "cancelled"}

NewsStopped == (\A t \in Tasks : news_pc[t] = "idle")
               \/ (\A t \in Tasks : news_pc[t] \in Ended)

RECURSIVE TotalEntries(_, _)
TotalEntries(f, n) == IF n = 0 THEN 0 ELSE Len(f[n]) + TotalEntries(f, n - 1)

\* What the feeds serve: the same entries in every run.
FeedContents ==
    {f \in [Tasks -> EntryLists] : TotalEntries(f, NumFeeds) <= MaxTotalEntries}

\* main_flow, lines 137-142: one process_single_feed per feed is gathered.
MainFlow ==
    /\ NewsStopped
    /\ news_runs < NewsMaxRuns
    /\ news_runs' = news_runs + 1
    /\ news_pc' = [t \in Tasks |-> "parse"]
    /\ news_idx' = [t \in Tasks |-> 1]
    /\ news_text' = [t \in Tasks |-> NoText]
    /\ item_error' = [t \in Tasks |-> FALSE]
    /\ UNCHANGED <<tdVars, feed_entries, file_exists, csv_buf, article_files,
                   index_exists, index_lines>>

\* process_single_feed, lines 77-81: feedparser.parse raises; return.
ParseFails(t) ==
    /\ news_pc[t] = "parse"
    /\ news_pc' = [news_pc EXCEPT ![t] = "done"]
    /\ UNCHANGED <<tdVars, item_error, feed_entries, news_idx, news_text, file_exists,
                   csv_buf, article_files, index_exists, index_lines,
                   news_runs>>

\* process_single_feed, lines 78 and 83: the feed parses; the entry loop
\* begins (and ends at once on an empty feed).
ParseOk(t) ==
    /\ news_pc[t] = "parse"
    /\ news_pc' = [news_pc EXCEPT ![t] = EntryPc(t, 1)]
    /\ UNCHANGED <<tdVars, item_error, feed_entries, news_idx, news_text, file_exists,
                   csv_buf, article_files, index_exists, index_lines,
                   news_runs>>

\* fetch_article_text returns None (lines 49-51); lines 97-98: continue,
\* straight to the next entry.
FetchNone(t) ==
    /\ news_pc[t] = "fetch"
    /\ news_pc' = [news_pc EXCEPT ![t] = NextEntryPc(t)]
    /\ news_idx' = [news_idx EXCEPT ![t] = @ + 1]
    /\ item_error' = [item_error EXCEPT ![t] = TRUE]
    /\ UNCHANGED <<tdVars, feed_entries, news_text, file_exists, csv_buf,
                   article_files, index_exists, index_lines, news_runs>>

\* fetch_article_text returns article.text (line 48); lines 100-118 go on to
\* save_article_to_json.
FetchText(t) ==
    /\ news_pc[t] = "fetch"
    /\ \E x \in Texts : news_text' = [news_text EXCEPT ![t] = x]
    /\ news_pc' = [news_pc EXCEPT ![t] = "json_open"]
    /\ UNCHANGED <<tdVars, item_error, feed_entries, news_idx, file_exists, csv_buf,
                   article_files, index_exists, index_lines, news_runs>>

\* save_article_to_json, line 59: aiofiles.open(file_path, "w") creates or
\* truncates the file.
JsonOpen(t) ==
    /\ news_pc[t] = "json_open"
    /\ article_files' =
          [article_files EXCEPT ![article_path(t, CurEntry(t).link)] = EmptyFile]
    /\ news_pc' = [news_pc EXCEPT ![t] = "json_write"]
    /\ UNCHANGED <<tdVars, item_error, feed_entries, news_idx, news_text, file_exists,
                   csv_buf, index_exists, index_lines, news_runs>>

\* Lines 106 and 59: mkdir or open raises; line 126 catches, line 130 sleeps.
JsonOpenFails_then_index(t) ==
    /\ news_pc[t] = "json_open"
    /\ news_pc' = [news_pc EXCEPT ![t] = "csv_check"]
    /\ item_error' = [item_error EXCEPT ![t] = TRUE]
    /\ UNCHANGED <<tdVars, feed_entries, news_idx, news_text, file_exists,
                   csv_buf, article_files, index_exists, index_lines,
                   news_runs>>
JsonOpenFails(t) ==
    /\ news_pc[t] = "json_open"
    /\ news_pc' = [news_pc EXCEPT ![t] = "sleep"]
    /\ item_error' = [item_error EXCEPT ![t] = TRUE]
    /\ UNCHANGED <<tdVars, feed_entries, news_idx, news_text, file_exists,
                   csv_buf, article_files, index_exists, index_lines,
                   news_runs>>

\* save_article_to_json, line 60 and the end of the with block: the JSON is
\* written and the file closed.
JsonWrite(t) ==
    /\ news_pc[t] = "json_write"
    /\ article_files' =
          [article_files EXCEPT ![article_path(t, CurEntry(t).link)] =
              [exists |-> TRUE, content |-> <<article_data(t)>>]]
    /\ news_pc' = [news_pc EXCEPT ![t] = "csv_check"]
    /\ UNCHANGED <<tdVars, item_error, feed_entries, news_idx, news_text, file_exists,
                   csv_buf, index_exists, index_lines, news_runs>>

\* save_index_to_csv, line 64: file_exists = os.path.isfile(index_file).
CsvCheck(t) ==
    /\ news_pc[t] = "csv_check"
    /\ file_exists' = [file_exists EXCEPT ![t] = index_exists]
    /\ news_pc' = [news_pc EXCEPT ![t] = "csv_open"]
    /\ UNCHANGED <<tdVars, item_error, feed_entries, news_idx, news_text, csv_buf,
                   article_files, index_exists, index_lines, news_runs>>

\* save_index_to_csv, lines 65-67: aiofiles.open(index_file, "a") creates
\* the file when it is not there; line 67 is the last use of file_exists.
CsvOpen(t) ==
    /\ news_pc[t] = "csv_open"
    /\ index_exists' = TRUE
    /\ csv_buf' = [csv_buf EXCEPT ![t] = <<>>]
    /\ news_pc' = [news_pc EXCEPT ![t] =
                      IF file_exists[t] THEN "csv_row" ELSE "csv_header"]
    /\ file_exists' = [file_exists EXCEPT ![t] = FALSE]
    /\ UNCHANGED <<tdVars, item_error, feed_entries, news_idx, news_text,
                   article_files, index_lines, news_runs>>

\* save_index_to_csv, lines 67-68: the header goes to the file object.
CsvWriteHeader(t) ==
    /\ news_pc[t] = "csv_header"
    /\ csv_buf' = [csv_buf EXCEPT ![t] = Append(@, HeaderLine)]
    /\ news_pc' = [news_pc EXCEPT ![t] = "csv_row"]
    /\ UNCHANGED <<tdVars, item_error, feed_entries, news_idx, news_text, file_exists,
                   article_files, index_exists, index_lines, news_runs>>

\* save_index_to_csv, line 69: the row goes to the file object.
CsvWriteRow(t) ==
    /\ news_pc[t] = "csv_row"
    /\ csv_buf' = [csv_buf EXCEPT ![t] = Append(@, RowLine(t))]
    /\ news_pc' = [news_pc EXCEPT ![t] = "csv_close"]
    /\ UNCHANGED <<tdVars, item_error, feed_entries, news_idx, news_text, file_exists,
                   article_files, index_exists, index_lines, news_runs>>

\* save_index_to_csv, the end of the with block: the file object is closed
\* and what was written to it is appended to the file.
CsvClose(t) ==
    /\ news_pc[t] = "csv_close"
    /\ index_lines' = AppendLines(index_lines, csv_buf[t])
    /\ csv_buf' = [csv_buf EXCEPT ![t] = <<>>]
    /\ news_pc' = [news_pc EXCEPT ![t] = "sleep"]
    /\ UNCHANGED <<tdVars, item_error, feed_entries, news_idx, news_text, file_exists,
                   article_files, index_exists, news_runs>>

\* process_single_feed, line 130: asyncio.sleep, then the next entry.
Sleep_skips_entry(t) ==
    /\ news_pc[t] = "sleep"
    /\ news_pc' = [news_pc EXCEPT ![t] = EntryPc(t, news_idx[t] + 2)]
    /\ news_idx' = [news_idx EXCEPT ![t] = @ + 2]
    /\ news_text' = [news_text EXCEPT ![t] = NoText]
    /\ UNCHANGED <<tdVars, item_error, feed_entries, file_exists, csv_buf,
                   article_files, index_exists, index_lines, news_runs>>
Sleep(t) ==
    /\ news_pc[t] = "sleep"
    /\ news_pc' = [news_pc EXCEPT ![t] = NextEntryPc(t)]
    /\ news_idx' = [news_idx EXCEPT ![t] = @ + 1]
    /\ news_text' = [news_text EXCEPT ![t] = NoText]
    /\ UNCHANGED <<tdVars, item_error, feed_entries, file_exists, csv_buf, article_files,
                   index_exists, index_lines, news_runs>>

\* main_flow, lines 140-142, and asyncio.run, line 145: a task has raised;
\* gather hands the exception to main_flow, which leaves the session and
\* ends, and the tasks still running are cancelled at the await they are
\* in (a task may run on for some steps before that). An index file that is
\* open is closed by its with block: what was written to it is flushed.
Cancel(t) ==
    /\ \E r \in Tasks : news_pc[r] = "raised"
    /\ news_pc[t] \notin Ended \cup {"idle"}
    /\ news_pc' = [news_pc EXCEPT ![t] = "cancelled"]
    /\ index_lines' = AppendLines(index_lines, csv_buf[t])
    /\ csv_buf' = [csv_buf EXCEPT ![t] = <<>>]
    /\ file_exists' = [file_exists EXCEPT ![t] = FALSE]
    /\ UNCHANGED <<tdVars, item_error, feed_entries, news_idx, news_text, article_files,
                   index_exists, news_runs>>

NewsNext ==
    \/ MainFlow
    \/ \E t \in Tasks : ParseFails(t)
    \/ \E t \in Tasks : ParseOk(t)
    \/ \E t \in Tasks : FetchNone(t)
    \/ \E t \in Tasks : FetchText(t)
    \/ \E t \in Tasks : JsonOpen(t)
    \/ \E t \in Tasks : JsonOpenFails(t)
    \/ \E t \in Tasks : JsonWrite(t)
    \/ \E t \in Tasks : CsvCheck(t)
    \/ \E t \in Tasks : CsvOpen(t)
    \/ \E t \in Tasks : CsvWriteHeader(t)
    \/ \E t \in Tasks : CsvWriteRow(t)
    \/ \E t \in Tasks : CsvClose(t)
    \/ \E t \in Tasks : Sleep(t)
    \/ \E t \in Tasks : Cancel(t)

\* ===================================================================
\*                     claims on tdnet_download.py
\* ===================================================================

Range(q) == {q[i] : i \in 1..Len(q)}

TotalCalls(u) == fetch_calls[u].main + fetch_calls[u].replay

\* download_single_pdf has just returned False for data[td_idx - 1] in the
\* main pass.
JustFailedMain ==
    /\ td_phase = "main" /\ td_pc = "loop"
    /\ td_idx > 1
    /\ failed_downloads # <<>>
    /\ failed_downloads[Len(failed_downloads)] = data[td_idx - 1]

\* An eligible item of the main pass that download_single_pdf is done with.
HandledMain(i) ==
    /\ td_phase = "main"
    /\ i \in 1..Len(data)
    /\ i < td_idx
    /\ Eligible(data[i])

\* What C2 says of every state, as long as no write or delete fails: the
\* main pass makes at most max_retries fetches per item; an item it has
\* handled and not given up was fetched at least once; and when
\* download_single_pdf has just given an item up, the item was fetched
\* exactly max_retries times, it is on the failure list and no file exists
\* at its path.
C2_State ==
    ~td_io_fault =>
        /\ \A u \in Urls : fetch_calls[u].main <= max_retries
        /\ \A i \in 1..Len(data) :
              (HandledMain(i) /\ data[i] \notin Range(failed_downloads))
                  => fetch_calls[data[i].document_url].main >= 1
        /\ JustFailedMain =>
              /\ fetch_calls[data[td_idx - 1].document_url].main = max_retries
              /\ pdf_files[file_path(data[td_idx - 1])] = NoFile

\* What C2 says of every step of the main pass: a fetch is made only for
\* the item download_single_pdf is working on, at the head of its loop, so
\* none is made for an item once an attempt has validated.
C2_Step ==
    (td_phase = "main" /\ td_phase' = "main") =>
        \A u \in Urls :
            fetch_calls'[u].main # fetch_calls[u].main =>
                /\ td_pc = "attempt"
                /\ ~RetriesExhausted
                /\ u = CurItem.document_url
                /\ fetch_calls'[u].main = fetch_calls[u].main + 1

\* C2. Retry bound within one pass: at most max_retries fetches per item,
\* none after the first attempt that validates, exactly max_retries when
\* every attempt fails, after which the item is on the main-pass failure
\* list and no file exists at its path.
C2_RetryBoundMainPass == [](C2_State) /\ [][C2_Step]_vars

\* The part of C2 that does not speak of the file: the attempt counts and
\* the failure list.
C2_AttemptCounts ==
    /\ [](/\ \A u \in Urls : fetch_calls[u].main <= max_retries
          /\ JustFailedMain =>
                fetch_calls[data[td_idx - 1].document_url].main = max_retries)
    /\ [][C2_Step]_vars

\* C3 as stated: over one run no item is fetched more than max_retries + 1
\* times.
C3_AtMostOneReplayAttempt ==
    \A u \in Urls : TotalCalls(u) <= max_retries + 1

\* C3, amended. The replay pass is a second process_downloads: an item is
\* fetched at most max_retries times more in it, at most 2 * max_retries
\* times over the run, and an item that the replay pass gives up as well was
\* fetched exactly max_retries times in each pass.
C3_ReplayAttemptBound ==
    /\ \A u \in Urls :
          /\ fetch_calls[u].replay <= max_retries
          /\ TotalCalls(u) <= 2 * max_retries
    /\ (td_phase = "done" /\ main_failed # <<>>) =>
          \A it \in Range(failed_downloads) :
              /\ fetch_calls[it.document_url].main = max_retries
              /\ fetch_calls[it.document_url].replay = max_retries

\* An item has failed both passes with max_retries = 2: four fetches.
C3_Witness ==
    /\ td_phase = "done"
    /\ max_retries = 2
    /\ \E it \in Range(failed_downloads) :
          it \in Range(main_failed) /\ TotalCalls(it.document_url) = 4

\* What C4 says of every state: a replay fetch is made only with the main
\* pass's failure list in the failure file, and only for an item of that
\* list; when the run has ended after a replay, the replay went through
\* the whole list and every item it gave up is in the failure file.
C4_State ==
    /\ \A u \in Urls :
          fetch_calls[u].replay > 0 =>
              /\ failed_downloads_file = <<main_failed>>
              /\ \E it \in Range(main_failed) : it.document_url = u
    /\ td_phase = "replay" =>
          /\ failed_downloads_file = <<main_failed>>
          /\ main_failed # <<>>
          /\ Range(main_failed) \subseteq Range(data)
    /\ (td_phase = "done" /\ main_failed # <<>>) =>
          /\ td_idx = Len(main_failed) + 1
          /\ failed_downloads_file # <<>>
          /\ Range(failed_downloads) \subseteq Range(failed_downloads_file[1])

\* What C4 says of every step: the main pass is followed by the replay pass
\* exactly when it gave up some item, and the list it hands over is the one
\* it built; the replay pass is followed by the end of the run; and once the
\* run has ended nothing is fetched and no file is written until run() is
\* called again.
C4_Step ==
    /\ (td_phase = "main" /\ td_phase' # "main") =>
          /\ td_idx > Len(data)
          /\ IF failed_downloads = <<>>
             THEN td_phase' = "done" /\ UNCHANGED failed_downloads_file
             ELSE /\ td_phase' = "replay"
                  /\ main_failed' = failed_downloads
                  /\ failed_downloads_file' = <<failed_downloads>>
                  /\ UNCHANGED fetch_calls
    /\ (td_phase = "replay" /\ td_phase' # "replay") => td_phase' = "done"
    /\ td_phase = "done" =>
          \/ td_phase' \in {"main", "crashed"}
          \/ UNCHANGED <<fetch_calls, pdf_files, failed_downloads_file,
                         td_phase>>

\* C4. Single replay pass: the main-pass failure list is in the failure
\* file before any replay fetch; one replay pass follows, over that list;
\* the run then ends and fetches nothing more; what still fails is in the
\* failure file.
C4_SingleReplayPass == [](C4_State) /\ [][C4_Step]_vars

\* A run has ended after a replay pass that fetched, rescued one item and
\* gave another up.
C4_Witness ==
    /\ td_phase = "done"
    /\ Len(main_failed) = 2
    /\ Len(failed_downloads) = 1
    /\ \E u \in Urls : fetch_calls[u].replay > 0

\* C7 (downloader). No clobbering: a path that holds a validated PDF holds
\* a validated PDF after every step.
C7_NoClobber ==
    [][\A p \in PdfPaths :
          validate_pdf(pdf_files[p]) => validate_pdf(pdf_files'[p])]_vars

\* download_single_pdf is working on CurItem.
InCall == InPass /\ td_pc \in {"attempt", "save", "validate"}

\* What is left of download_single_pdf's loop: three steps for each
\* iteration not begun, and the steps left of the one under way.
StepsLeft ==
    3 * (max_retries - td_attempt)
        + (CASE td_pc = "save" -> 2 [] td_pc = "validate" -> 1 [] OTHER -> 0)

\* download_single_pdf returns True: a validated file is at the item's path
\* and the item is not put on the failure list.
ReturnsTrue ==
    /\ td_pc' = "loop" /\ td_phase' = td_phase /\ td_idx' = td_idx + 1
    /\ validate_pdf(pdf_files'[file_path(CurItem)])
    /\ failed_downloads' = failed_downloads

\* download_single_pdf returns False: process_downloads puts the item on the
\* failure list.
ReturnsFalse ==
    /\ td_pc' = "loop" /\ td_phase' = td_phase /\ td_idx' = td_idx + 1
    /\ failed_downloads' = Append(failed_downloads, CurItem)

\* A step inside download_single_pdf either stays in it, on the same item
\* and nearer to the end of the loop, or returns True or False.
C11_Step ==
    InCall =>
        \/ /\ InCall'
           /\ td_phase' = td_phase /\ td_idx' = td_idx
           /\ StepsLeft' < StepsLeft
           /\ UNCHANGED failed_downloads
        \/ ReturnsTrue
        \/ ReturnsFalse

\* Inside download_single_pdf the loop has not run past max_retries and
\* some step can be taken.
C11_State == InCall => (StepsLeft >= 0 /\ ENABLED TdNext)

\* C11. Terminal outcome per item: whatever the fetch, write, validation
\* and delete outcomes, download_single_pdf ends after at most
\* 3 * max_retries steps, either returning True with a validated file at
\* the item's path or returning False, and no exception leaves it.
C11_TerminalOutcome == [](C11_State) /\ [][C11_Step]_vars

\* An item was stored on its second attempt, after a write or a delete
\* had failed.
C11_Witness ==
    /\ td_phase = "main" /\ td_pc = "loop" /\ td_idx = 2
    /\ td_io_fault
    /\ failed_downloads = <<>>
    /\ Eligible(data[1])
    /\ fetch_calls[data[1].document_url].main = 2
    /\ validate_pdf(pdf_files[file_path(data[1])])

\* The items of the failure file.
FailureFileItems ==
    IF failed_downloads_file = <<>> THEN {}
    ELSE Range(failed_downloads_file[1])

\* The last digit of the item's company code is 0.
CodeEndsInZero(item) ==
    \E n \in 1..Len(item.company_code) :
        n = Len(item.company_code) /\ item.company_code[n] = 0

\* C14. Eligibility filter: an item whose company code does not end in "0"
\* is never fetched, in either pass, no file is at its path, and it is on
\* no failure list and not in the failure file.
C14_EligibilityFilter ==
    \A i \in 1..Len(data) :
        ~CodeEndsInZero(data[i]) =>
            /\ fetch_calls[data[i].document_url] = [main |-> 0, replay |-> 0]
            /\ pdf_files[file_path(data[i])] = NoFile
            /\ data[i] \notin Range(failed_downloads)
            /\ data[i] \notin Range(main_failed)
            /\ data[i] \notin FailureFileItems

\* A run with a replay pass has ended; it passed over an item whose code
\* ends in "5" and fetched one whose code ends in "0".
C14_Witness ==
    /\ td_phase = "done" /\ main_failed # <<>>
    /\ \E i, j \in 1..Len(data) :
          /\ ~CodeEndsInZero(data[i])
          /\ CodeEndsInZero(data[j])
          /\ fetch_calls[data[j].document_url].replay > 0

\* C19. Failure file on a clean main pass: when run() has ended after a
\* main pass that gave up no item, no replay fetch was made and the failure
\* file is as it was when run() was called; when the main pass gave up some
\* item, the failure file holds the main-pass failure list during and after
\* the replay pass, whatever the replay pass did.
C19_FailureFileFrame ==
    /\ td_phase = "done" =>
          IF main_failed = <<>>
          THEN /\ failed_downloads_file = failure_file_before
               /\ \A u \in Urls : fetch_calls[u].replay = 0
          ELSE failed_downloads_file = <<main_failed>>
    /\ td_phase = "replay" => failed_downloads_file = <<main_failed>>
    /\ td_phase = "main" => failed_downloads_file = failure_file_before

\* A second run has ended after a clean main pass, with the first run's
\* failure list still in the failure file.
C19_Witness ==
    /\ td_phase = "done" /\ td_runs = 2
    /\ main_failed = <<>>
    /\ \E i \in 1..Len(data) : Eligible(data[i])
    /\ failure_file_before # <<>>
    /\ failed_downloads_file = failure_file_before

\* ===================================================================
\*                     claims on news_download.py
\* ===================================================================

AllDone == \A t \in Tasks : news_pc[t] = "done"

\* The positions of the index rows for an id.
RowsFor(id) ==
    {i \in 1..Len(index_lines) :
        index_lines[i].kind = "row" /\ index_lines[i].id = id}

Headers == {i \in 1..Len(index_lines) : index_lines[i].kind = "header"}

\* The article files that hold an article with this id.
FilesFor(id) ==
    {p \in ArticlePaths :
        /\ article_files[p].content # <<>>
        /\ article_files[p].content[1].id = id}

StoredIds ==
    {article_files[p].content[1].id :
        p \in {q \in ArticlePaths : article_files[q].content # <<>>}}

\* Task t is between save_index_to_csv's existence check and the end of its
\* write.
InIndexAppend(t) ==
    news_pc[t] \in {"csv_open", "csv_header", "csv_row", "csv_close"}

\* No link is served twice, in one feed or in two.
DistinctLinks ==
    \A t1, t2 \in Tasks :
        \A i \in 1..Len(feed_entries[t1]) :
            \A j \in 1..Len(feed_entries[t2]) :
                feed_entries[t1][i].link = feed_entries[t2][j].link
                    => (t1 = t2 /\ i = j)

IsPrefix(a, b) == Len(a) <= Len(b) /\ SubSeq(b, 1, Len(a)) = a

\* C1. Validation gating: when a task is done with an entry whose text
\* came back empty, no file exists at the entry's path and the index has
\* no row for its id.
C1_ValidationGating ==
    \A t \in Tasks :
        (news_pc[t] = "sleep" /\ news_text[t] = "") =>
            /\ ~article_files[article_path(t, CurEntry(t).link)].exists
            /\ RowsFor(generate_unique_id(CurEntry(t).link)) = {}

\* C5. Idempotence across runs: with every link served once, whenever a run
\* has ended the index has exactly one row for each stored id.
C5_Idempotence ==
    (DistinctLinks /\ AllDone) =>
        \A id \in StoredIds : Cardinality(RowsFor(id)) = 1

\* C6. Duplicate syndication: within the first run no id gets a second
\* artifact or a second index row.
C6_DuplicateSyndication ==
    news_runs <= 1 =>
        \A l \in Links :
            /\ Cardinality(RowsFor(generate_unique_id(l))) <= 1
            /\ Cardinality(FilesFor(generate_unique_id(l))) <= 1

\* C8. Header written exactly once: whenever no save_index_to_csv call is
\* under way and the index file exists, it holds exactly one header.
C8_HeaderOnce ==
    (index_exists /\ \A t \in Tasks : ~InIndexAppend(t)) =>
        Cardinality(Headers) = 1

\* C9. Serialized index appends: no task checks or writes the index file
\* between another task's existence check and the end of that task's write.
C9_SerializedAppends ==
    \A t1, t2 \in Tasks :
        (InIndexAppend(t1) /\ InIndexAppend(t2)) => t1 = t2

\* C10. Append-only index: every step leaves the lines the index held in
\* place, as a prefix of what it holds afterwards, and never removes the
\* file.
C10_AppendOnly ==
    [][/\ IsPrefix(index_lines, index_lines')
       /\ index_exists => index_exists']_vars

\* A second run has appended to an index that already held lines.
C10_Witness ==
    /\ news_runs = 2
    /\ Len(index_lines) >= 4
    /\ \E t \in Tasks : news_pc[t] = "sleep"

\* The gather is over: every task has returned, raised or been cancelled.
RunOver == \A t \in Tasks : news_pc[t] \in Ended

\* The entries of its feed that task t has not finished with.
EntriesLeft(t) ==
    IF news_pc[t] = "done" THEN 0
    ELSE Len(feed_entries[t]) - news_idx[t] + 1

\* C13. Partial independence: when the run is over, every source whose own
\* enumeration did not fail has been enumerated and has had each of its
\* entries processed to completion, whatever happened to the other sources.
C13_PartialIndependence ==
    RunOver =>
        \A t \in Tasks : news_pc[t] # "raised" => EntriesLeft(t) = 0


\* C12. Pacing after every fetch attempt: a feed task goes to the fetch of
\* its next entry only from the delay of line 130, whether the fetch before
\* succeeded or failed.
C12_PacingAfterEveryFetch ==
    [][\A t \in Tasks :
          (news_idx'[t] = news_idx[t] + 1 /\ news_pc'[t] = "fetch")
              => news_pc[t] = "sleep"]_vars


\* C15. Per-item failure isolation in a batch: when the run is over, a feed
\* task in which the fetch or the write of some entry failed has gone on to
\* every entry enumerated after it: no entry of its feed is left.
C15_PerItemIsolation ==
    RunOver =>
        \A t \in Tasks : item_error[t] => EntriesLeft(t) = 0


\* The data rows among some lines.
DataRows(lines) ==
    {lines[i] : i \in {j \in 1..Len(lines) : lines[j].kind = "row"}}

\* C16. Store before index: in every state, a state where a task stopped
\* in the middle of an entry included, every data row of the index (and
\* every row written to an index file object that is still open) has an
\* article file at its stored path, and a task that is in save_index_to_csv
\* has its entry's article written at that path.
C16_StoreBeforeIndex ==
    /\ \A r \in DataRows(index_lines) : article_files[r.file_path].exists
    /\ \A t \in Tasks :
          /\ \A r \in DataRows(csv_buf[t]) : article_files[r.file_path].exists
          /\ news_pc[t] \in {"csv_check", "csv_open", "csv_header",
                             "csv_row", "csv_close"}
                => article_files[article_path(t, CurEntry(t).link)].content
                       = <<article_data(t)>>

\* A task was cancelled in the middle of an entry, after the article file
\* was written and before its row reached the index, while the index holds
\* the row of another article.
C16_Witness ==
    /\ DataRows(index_lines) # {}
    /\ \E t \in Tasks :
          /\ news_pc[t] = "cancelled"
          /\ news_idx[t] <= Len(feed_entries[t])
          /\ WellFormed(CurEntry(t))
          /\ article_files[article_path(t, CurEntry(t).link)].content # <<>>
          /\ RowsFor(generate_unique_id(CurEntry(t).link)) = {}


\* The entry that task t is working on, between its fetch and the end of
\* the loop body.
InEntry(t) ==
    news_pc[t] \in {"fetch", "json_open", "json_write", "csv_check",
                    "csv_open", "csv_header", "csv_row", "csv_close", "sleep"}

\* Within a task the position in feed.entries starts at the first entry and
\* moves one entry at a time, and only when the entry it is on was skipped
\* (the fetch gave nothing), has failed or has been stored.
C17_Step ==
    \A t \in Tasks :
        news_idx'[t] # news_idx[t] =>
            \/ news_pc'[t] = "parse" /\ news_idx'[t] = 1
            \/ /\ news_idx'[t] = news_idx[t] + 1
               /\ news_pc[t] \in {"fetch", "sleep"}
               /\ news_pc'[t] \in {"fetch", "done", "raised"}

\* A task that is working on an entry is on an entry of its feed, and a task
\* that has not begun its loop is before the first entry.
C17_State ==
    \A t \in Tasks :
        /\ InEntry(t) => news_idx[t] \in 1..Len(feed_entries[t])
        /\ news_pc[t] = "parse" => news_idx[t] = 1

\* C17. Sequential within a source: a feed task has one entry in progress at
\* a time and takes its entries in enumeration order, entry i+1 only after
\* entry i was stored, skipped or has failed. (That the tasks interleave is
\* shown by the witness.)
C17_SequentialWithinSource == [](C17_State) /\ [][C17_Step]_vars

\* Fetches of two tasks interleave: task 1 is at the fetch of its second
\* entry while task 2 is at the fetch of its first, and the other way round
\* is reachable by symmetry.
C17_Witness ==
    /\ news_pc[1] = "fetch" /\ news_idx[1] = 2
    /\ news_pc[2] = "fetch" /\ news_idx[2] = 1


\* C18. Header position under concurrency: a header line of the index file
\* is its first line; no data row comes before a header line.
C18_HeaderFirst == \A i \in Headers : i = 1

\* ===================================================================
\*                     specifications
\* ===================================================================

\* TdnetDownloader(config) is constructed on an empty pdf_directory; the
\* news script is not running.
InitTdnet ==
    /\ max_retries \in 0..MaxMaxRetries
    /\ api_items \in ApiListings
    /\ data = <<>>
    /\ extracted_data_file = <<>>
    /\ failed_downloads_file = <<>>
    /\ pdf_files = [p \in PdfPaths |-> NoFile]
    /\ td_phase = "idle"
    /\ td_pc = "loop"
    /\ td_idx = 1
    /\ td_attempt = 0
    /\ td_content = NoContent
    /\ failed_downloads = <<>>
    /\ main_failed = <<>>
    /\ td_runs = 0
    /\ fetch_calls = NoCalls
    /\ td_io_fault = FALSE
    /\ failure_file_before = <<>>
    /\ feed_entries = [t \in Tasks |-> <<>>]
    /\ news_pc = [t \in Tasks |-> "off"]
    /\ news_idx = [t \in Tasks |-> 1]
    /\ news_text = [t \in Tasks |-> NoText]
    /\ file_exists = [t \in Tasks |-> FALSE]
    /\ csv_buf = [t \in Tasks |-> <<>>]
    /\ article_files = [p \in ArticlePaths |-> Absent]
    /\ index_exists = FALSE
    /\ index_lines = <<>>
    /\ news_runs = 0
    /\ item_error = [t \in Tasks |-> FALSE]

\* main_flow has not been started and raw_data/news is empty; the
\* downloader is not running.
InitNews ==
    /\ feed_entries \in FeedContents
    /\ news_pc = [t \in Tasks |-> "idle"]
    /\ news_idx = [t \in Tasks |-> 1]
    /\ news_text = [t \in Tasks |-> NoText]
    /\ file_exists = [t \in Tasks |-> FALSE]
    /\ csv_buf = [t \in Tasks |-> <<>>]
    /\ article_files = [p \in ArticlePaths |-> Absent]
    /\ index_exists = FALSE
    /\ index_lines = <<>>
    /\ news_runs = 0
    /\ item_error = [t \in Tasks |-> FALSE]
    /\ max_retries = 0
    /\ api_items = <<>>
    /\ data = <<>>
    /\ extracted_data_file = <<>>
    /\ failed_downloads_file = <<>>
    /\ pdf_files = [p \in PdfPaths |-> NoFile]
    /\ td_phase = "off"
    /\ td_pc = "loop"
    /\ td_idx = 1
    /\ td_attempt = 0
    /\ td_content = NoContent
    /\ failed_downloads = <<>>
    /\ main_failed = <<>>
    /\ td_runs = 0
    /\ fetch_calls = NoCalls
    /\ td_io_fault = FALSE
    /\ failure_file_before = <<>>

SpecTdnet == InitTdnet /\ [][TdNext]_vars

SpecNews == InitNews /\ [][NewsNext]_vars

====
